---- MODULE Spec2Model ----
(***************************************************************************)
(* Model of the D&D rules assistant: DnDAssistant (Project/dnd_agent.py)   *)
(* and the chat window that drives it (Project/dnd_chat_ui.py).            *)
(*                                                                         *)
(* Python strings are sequences of one-character strings, so that prefix   *)
(* tests, str.split, str.strip, str.lower and the duplicate test of the    *)
(* referenced-rules log are the real operations on the real text.          *)
(***************************************************************************)
EXTENDS Integers, Sequences, FiniteSets, TLC

(***************************************************************************)
(* Bounds of the model.                                                    *)
(***************************************************************************)
\* send_message and search_rules calls explored on one DnDAssistant
MaxCalls == 3
\* words of a generated response text
MaxScanWords == 3

(***************************************************************************)
(* Characters and the str methods the code uses.                           *)
(***************************************************************************)
UpperSeq == <<"A","B","C","D","E","F","G","H","I","J","K","L","M","N","O","P","Q","R","S","T","U","V","W","X","Y","Z">>
LowerSeq == <<"a","b","c","d","e","f","g","h","i","j","k","l","m","n","o","p","q","r","s","t","u","v","w","x","y","z">>
DigitSeq == <<"0","1","2","3","4","5","6","7","8","9">>

Range(s) == { s[i] : i \in DOMAIN s }

UpperChars == Range(UpperSeq)
LowerChars == Range(LowerSeq)
Whitespace == {" ", "\n"}

\* str.isupper() of one character
CharIsUpper(c) == c \in UpperChars

\* str.isalpha(): every character is a letter and there is at least one
IsAlpha(w) == Len(w) > 0 /\ \A i \in DOMAIN w : w[i] \in UpperChars \cup LowerChars

\* str.lower() of one character
LowerChar(c) ==
    IF c \in UpperChars
    THEN LowerSeq[CHOOSE i \in DOMAIN UpperSeq : UpperSeq[i] = c]
    ELSE c

\* str.lower()
StrLower(s) == [ i \in DOMAIN s |-> LowerChar(s[i]) ]

\* the `in` operator on two strings: sub occurs in s
StrContains(s, sub) ==
    \E i \in 1..(Len(s) - Len(sub) + 1) : SubSeq(s, i, i + Len(sub) - 1) = sub

\* s.startswith(prefix)
StartsWith(s, prefix) ==
    Len(s) >= Len(prefix) /\ SubSeq(s, 1, Len(prefix)) = prefix

RECURSIVE SplitLoop(_, _, _, _)
SplitLoop(s, i, cur, acc) ==
    IF i > Len(s)
    THEN IF cur = <<>> THEN acc ELSE Append(acc, cur)
    ELSE IF s[i] \in Whitespace
         THEN SplitLoop(s, i + 1, <<>>, IF cur = <<>> THEN acc ELSE Append(acc, cur))
         ELSE SplitLoop(s, i + 1, Append(cur, s[i]), acc)

\* str.split() with no separator: the runs of non-whitespace characters
StrSplit(s) == SplitLoop(s, 1, <<>>, <<>>)

RECURSIVE StrJoin(_, _)
\* sep.join(parts)
StrJoin(sep, parts) ==
    IF parts = <<>> THEN <<>>
    ELSE IF Len(parts) = 1 THEN parts[1]
    ELSE parts[1] \o sep \o StrJoin(sep, Tail(parts))

RECURSIVE LStrip(_, _)
LStrip(s, chars) ==
    IF s # <<>> /\ s[1] \in chars THEN LStrip(Tail(s), chars) ELSE s

RECURSIVE RStrip(_, _)
RStrip(s, chars) ==
    IF s # <<>> /\ s[Len(s)] \in chars THEN RStrip(SubSeq(s, 1, Len(s) - 1), chars) ELSE s

\* str.strip(chars): drops the characters of chars at both ends
StrStrip(s, chars) == RStrip(LStrip(s, chars), chars)

RECURSIVE IntToStr(_)
\* str(n) of a natural number
IntToStr(n) ==
    IF n < 10 THEN <<DigitSeq[n + 1]>>
    ELSE IntToStr(n \div 10) \o <<DigitSeq[(n % 10) + 1]>>

\* list[:n]
Take(s, n) == SubSeq(s, 1, IF Len(s) < n THEN Len(s) ELSE n)

(***************************************************************************)
(* String literals of dnd_agent.py.                                        *)
(***************************************************************************)
QueryPrefix == <<"Q","u","e","r","y",":"," ">>
SearchPrefix == <<"S","e","a","r","c","h",":"," ">>
FoundPrefix == <<"F","o","u","n","d",":"," ">>
PossiblePrefix == <<"P","o","s","s","i","b","l","e",":"," ">>
ErrorPrefix == <<"E","r","r","o","r",":"," ">>
SearchErrorPrefix == <<"E","r","r","o","r"," ","s","e","a","r","c","h","i","n","g"," ","r","u","l","e","s",":"," ">>
NoMatchText == <<"N","o"," ","m","a","t","c","h","i","n","g"," ","r","u","l","e","s"," ","f","o","u","n","d"," ","i","n"," ","t","h","e"," ","r","u","l","e","b","o","o","k","s",".">>
DefaultResponse == <<"S","o","r","r","y",","," ","I"," ","c","o","u","l","d","n","'","t"," ","g","e","n","e","r","a","t","e"," ","a"," ","r","e","s","p","o","n","s","e",".">>
SourcePagePrefix == <<"S","o","u","r","c","e",":"," ","P","a","g","e"," ">>
NotAvailable == <<"N","/","A">>
Keywords ==
    { <<"r","a","c","e">>, <<"c","l","a","s","s">>, <<"s","p","e","l","l">>,
      <<"i","t","e","m">>, <<"m","o","n","s","t","e","r">>, <<"r","u","l","e">> }
StripChars == {".", ",", ":", ";"}
SentenceEnd == {".", "!", "?"}
SearchK == 4
FoundDocs == 2
FoundWords == 3
MinWordLen == 2

\* the document used when the rulebook PDF is not found
PlaceholderDoc ==
    [ page_content |-> <<"G","o","l","i","a","t","h",":"," ","A"," ","r","a","c","e"," ","o","f"," ","p","o","w","e","r","f","u","l"," ","h","u","m","a","n","o","i","d","s"," ","k","n","o","w","n"," ","f","o","r"," ","t","h","e","i","r"," ","s","t","r","e","n","g","t","h"," ","a","n","d"," ","s","i","z","e",".">>,
      metadata |-> [ page |-> 123 ] ]

(***************************************************************************)
(* The rulebook PDF as construction finds it, and the inputs of the calls. *)
(***************************************************************************)
PageElf == [ page_content |-> <<"t","h","e"," ","e","l","f">>, metadata |-> [ page |-> 0 ] ]
PageOrc == [ page_content |-> <<";","O","r","c",":"," ","m","o","n","s","t","e","r",".">>, metadata |-> [ page |-> 12 ] ]
PageBlank == [ page_content |-> <<>>, metadata |-> [ page |-> 0 ] ]

\* exists: os.path.exists(pdf_path); loads: PyPDFLoader.load() returns; pages: what it returns
PdfCases ==
    { [ exists |-> FALSE, loads |-> FALSE, pages |-> <<>> ],
      [ exists |-> TRUE, loads |-> FALSE, pages |-> <<>> ],
      [ exists |-> TRUE, loads |-> TRUE, pages |-> <<>> ],
      [ exists |-> TRUE, loads |-> TRUE, pages |-> <<PageBlank>> ],
      [ exists |-> TRUE, loads |-> TRUE, pages |-> <<PageElf, PageOrc>> ] }

Messages == { <<>>, <<"h","i">> }
Queries == { <<>>, <<"e","l","f">> }
ErrTexts == { <<>>, <<"t","i","m","e","o","u","t">> }
AttributeErrorText == <<"'","l","i","s","t","'"," ","o","b","j","e","c","t"," ","h","a","s"," ","n","o"," ","a","t","t","r","i","b","u","t","e"," ","'","s","p","l","i","t","'">>

FireballResponse == <<"T","h","e"," ","F","i","r","e","b","a","l","l"," ","s","p","e","l","l"," ","d","e","a","l","s"," ","d","a","m","a","g","e",".">>
ElfOrcResponse == <<"E","l","f","."," ","O","r","c"," ","m","e","t"," ","E","l","f"," ","a","n","d"," ","O","r","c">>

\* a message content: a str, or a list of content blocks (isStr = FALSE)
StrContent(t) == [ isStr |-> TRUE, text |-> t ]
ListContent == [ isStr |-> FALSE, text |-> <<>> ]

\* what agent.stream(...) yields: whether there is an event, whether the last event
\* has messages, whether the last message has a content attribute, and the content
StreamResults ==
    { [ events |-> FALSE, messages |-> FALSE, hasContent |-> FALSE, content |-> StrContent(<<>>) ],
      [ events |-> TRUE, messages |-> FALSE, hasContent |-> FALSE, content |-> StrContent(<<>>) ],
      [ events |-> TRUE, messages |-> TRUE, hasContent |-> FALSE, content |-> StrContent(<<>>) ],
      [ events |-> TRUE, messages |-> TRUE, hasContent |-> TRUE, content |-> ListContent ] }
    \cup { [ events |-> TRUE, messages |-> TRUE, hasContent |-> TRUE, content |-> StrContent(t) ] :
             t \in { <<>>, FireballResponse, ElfOrcResponse } }

(***************************************************************************)
(* DnDAssistant: construction of the index.                                *)
(***************************************************************************)
\* RecursiveCharacterTextSplitter.split_documents on pages shorter than chunk_size:
\* one chunk per page that has text, none for a page without text
split_documents(pages) == SelectSeq(pages, LAMBDA p : p.page_content # <<>>)

_load_rules_documents(pdf) ==
    IF ~pdf.loads THEN <<>>
    ELSE IF pdf.pages = <<>> THEN <<>>
    ELSE split_documents(pdf.pages)

_prepare_vector_store(rules_chunks) == rules_chunks

\* _setup_assistant without the branch of lines 93-97
SetupWithoutPlaceholder(pdf) == _prepare_vector_store(_load_rules_documents(pdf))

\* the part of _setup_assistant that builds rules_vector_store
_setup_assistant(pdf) ==
    LET rules_docs == IF ~pdf.exists THEN <<PlaceholderDoc>>
                      ELSE _load_rules_documents(pdf)
    IN  _prepare_vector_store(rules_docs)

(***************************************************************************)
(* DnDAssistant: the referenced-rules log.                                 *)
(***************************************************************************)
\* _add_referenced_rule without the membership test of line 181
AddWithoutMembershipTest(rules, rule) ==
    IF rule # <<>> THEN Append(rules, rule) ELSE rules

\* _add_referenced_rule that puts a new entry first (insert(0, rule) for append(rule))
AddInFront(rules, rule) ==
    IF rule # <<>> /\ rule \notin Range(rules) THEN <<rule>> \o rules ELSE rules

_add_referenced_rule(rules, rule) ==
    IF rule # <<>> /\ rule \notin Range(rules) THEN Append(rules, rule) ELSE rules

get_referenced_rules(rules) == rules

(***************************************************************************)
(* The search_rules tool.                                                  *)
(***************************************************************************)
\* the orders in which similarity_search(query, k) can return documents of the store:
\* min(k, size) distinct documents, ranked by a similarity the model does not compute
similarity_search(store, k) ==
    LET n == IF Len(store) < k THEN Len(store) ELSE k
    IN  { [ i \in 1..n |-> store[f[i]] ] :
            f \in { g \in [1..n -> DOMAIN store] : \A a, b \in 1..n : a # b => g[a] # g[b] } }

\* lines 123-129: one document of docs[:2]
FoundStep(rules, doc) ==
    LET content_lower == StrLower(doc.page_content)
    IN  IF \E keyword \in Keywords : StrContains(content_lower, keyword)
        THEN LET words == Take(StrSplit(doc.page_content), FoundWords)
             IN  IF words # <<>>
                 THEN _add_referenced_rule(rules,
                          FoundPrefix \o StrStrip(StrJoin(<<" ">>, words), StripChars))
                 ELSE rules
        ELSE rules

RECURSIVE FoundLoop(_, _)
FoundLoop(rules, docs) ==
    IF docs = <<>> THEN rules
    ELSE FoundLoop(FoundStep(rules, Head(docs)), Tail(docs))

MetadataPage(doc) ==
    IF "page" \in DOMAIN doc.metadata THEN IntToStr(doc.metadata.page) ELSE NotAvailable

\* lines 131-132
RenderDocs(docs) ==
    StrJoin(<<"\n", "\n">>,
            [ i \in DOMAIN docs |-> SourcePagePrefix \o MetadataPage(docs[i]) \o <<"\n">> \o docs[i].page_content ])

\* a value returned to the caller, or an exception that leaves the function
Returned(v) == [ raised |-> FALSE, value |-> v ]
Raised(e) == [ raised |-> TRUE, value |-> e ]

\* search_rules without the try of lines 113 and 134: the exception leaves the tool
SearchRulesNoExcept(e) == Raised(e)

\* lines 134-135
SearchRulesExcept(e) == Returned(SearchErrorPrefix \o e)

\* lines 119-129: the log after a search that found documents
SearchRulesLog(rules, query, docs) ==
    FoundLoop(_add_referenced_rule(rules, SearchPrefix \o query), Take(docs, FoundDocs))

\* search_rules(query) where the index search raises (searchFails) or returns docs, and
\* a later step raises (laterFails) or not; e is the text of the exception
search_rules(rules, query, searchFails, docs, laterFails, e) ==
    IF searchFails THEN [ rules |-> rules, result |-> SearchRulesExcept(e) ]
    ELSE IF docs = <<>> THEN [ rules |-> rules, result |-> Returned(NoMatchText) ]
    ELSE LET logged == SearchRulesLog(rules, query, docs)
         IN  IF laterFails THEN [ rules |-> logged, result |-> SearchRulesExcept(e) ]
             ELSE [ rules |-> logged, result |-> Returned(RenderDocs(docs)) ]

\* what can happen inside one search_rules call: the index search raises; or it returns
\* docs and nothing raises; or it returns docs and a step after the log entries raises
\* (a step after the early return of line 116, so only when docs is not empty)
SearchOutcomes(store) ==
    { [ searchFails |-> TRUE, docs |-> <<>>, laterFails |-> FALSE, e |-> e ] : e \in ErrTexts }
    \cup { [ searchFails |-> FALSE, docs |-> docs, laterFails |-> FALSE, e |-> <<>> ] :
             docs \in similarity_search(store, SearchK) }
    \cup { [ searchFails |-> FALSE, docs |-> o[1], laterFails |-> TRUE, e |-> o[2] ] :
             o \in { d \in similarity_search(store, SearchK) : d # <<>> } \X ErrTexts }

(***************************************************************************)
(* send_message and the response scan.                                     *)
(***************************************************************************)
\* send_message without line 189
SendMessageNoLog(rules, message) == rules

\* line 189
SendMessageLog(rules, message) == _add_referenced_rule(rules, QueryPrefix \o message)

\* lines 200-206
ResponseContent(stream) ==
    IF stream.events /\ stream.messages /\ stream.hasContent
    THEN stream.content
    ELSE StrContent(DefaultResponse)

\* line 222
IsCandidate(word) ==
    word # <<>> /\ CharIsUpper(word[1]) /\ Len(word) > MinWordLen /\ IsAlpha(word)

\* line 224 without the test of the preceding word
NotFirstWord(words, i) == i > 1

\* line 224, with the 1-based index of the word
NotSentenceStart(words, i) ==
    i > 1 /\ words[i - 1][Len(words[i - 1])] \notin SentenceEnd

RECURSIVE ExtractLoop(_, _, _)
ExtractLoop(rules, words, i) ==
    IF i > Len(words) THEN rules
    ELSE ExtractLoop(
             IF IsCandidate(words[i]) /\ NotSentenceStart(words, i)
             THEN _add_referenced_rule(rules, PossiblePrefix \o words[i])
             ELSE rules,
             words, i + 1)

_extract_rules_from_response(rules, response) ==
    ExtractLoop(rules, StrSplit(response), 1)

\* send_message without the try of lines 187 and 213: the exception leaves send_message
SendMessageNoExcept(e) == Raised(e)

\* lines 213-214
SendMessageExcept(e) == Returned(ErrorPrefix \o e)

(***************************************************************************)
(* State.                                                                  *)
(***************************************************************************)
VARIABLES
    pdf,                 \* the rulebook PDF as _setup_assistant finds it
    rules_vector_store,  \* the documents of the index built at construction
    referenced_rules,    \* DnDAssistant._referenced_rules
    pc,                  \* "idle", or "stream" while send_message drives the agent
    turn,                \* the send_message call in progress: message, caller, log at the call
    calls,               \* send_message and search_rules calls made so far
    lastTool,            \* the last search_rules call of the send_message call in progress
    lastSend,            \* the last send_message call and what it returned
    assistant,           \* DnDChatWindow.assistant: "None" or "ready"
    initThread,          \* init_assistant_thread: "running", "done", "failed", or "absent"
    is_processing,       \* DnDChatWindow.is_processing
    input_enabled,       \* send_button and message_input are enabled
    input_text,          \* the text of message_input
    workers,             \* the ChatWorker threads created so far
    worker,              \* DnDChatWindow.worker: an index of workers, or 0 for None
    events,              \* calls queued for the thread of the window, oldest first
    rules_list,          \* the items of the rules panel
    process              \* the process of the program: "running" or "aborted"

assistantVars == <<pdf, rules_vector_store, referenced_rules, pc, turn, calls, lastTool, lastSend>>
windowVars == <<assistant, initThread, is_processing, input_enabled, input_text, workers, worker, events, rules_list>>
vars == <<pdf, rules_vector_store, referenced_rules, pc, turn, calls, lastTool, lastSend,
          assistant, initThread, is_processing, input_enabled, input_text, workers, worker, events,
          rules_list, process>>

\* the process is running and this step leaves it so
Alive == process = "running" /\ process' = process

NoTurn == [ message |-> <<>>, caller |-> 0, before |-> <<>> ]
NoTool == [ called |-> FALSE, query |-> <<>>, searched |-> FALSE, failed |-> FALSE, found |-> 0,
            before |-> <<>>, result |-> Returned(<<>>) ]
NoSend == [ called |-> FALSE, message |-> <<>>, failed |-> FALSE, before |-> <<>>,
            scanned |-> FALSE, scanFrom |-> <<>>, response |-> <<>>, result |-> Returned(<<>>) ]

(***************************************************************************)
(* ChatWorker.run, from the return of assistant.send_message on.           *)
(***************************************************************************)
ResponseReady(w, text) == [ kind |-> "response_ready", w |-> w, text |-> text ]
ErrorOccurred(w, text) == [ kind |-> "error_occurred", w |-> w, text |-> text ]
Finished(w) == [ kind |-> "finished", w |-> w, text |-> <<>> ]
AssistantReady == [ kind |-> "assistant_ready", w |-> 0, text |-> <<>> ]
AssistantError(e) == [ kind |-> "assistant_error", w |-> 0, text |-> e ]

\* lines 27-30 of dnd_chat_ui.py: the signal run emits for what send_message did
RunEmits(w, result) ==
    IF result.raised THEN ErrorOccurred(w, result.value) ELSE ResponseReady(w, result.value)

\* the thread of ChatWorker w has started and has not finished, and is not executing
\* run (lines 25-30), which refers to the object while it executes
Unfinished(w) == w \in DOMAIN workers /\ workers[w].state \in {"started", "emitted"}

\* what becomes of the process when the last reference to a ChatWorker whose thread
\* has not finished is dropped: the object is deallocated, and the destructor of a
\* QThread aborts the process unless the thread is already finishing
Destructor == {"running", "aborted"}

\* send_message returns result to its caller: to the ChatWorker that called it, which
\* emits its signal and returns from run, or to a direct caller of the DnDAssistant
\* (caller 0). A ChatWorker that self.worker no longer refers to is released when its
\* run returns.
ReturnTo(caller, result) ==
    IF caller = 0
    THEN UNCHANGED windowVars /\ process' = process
    ELSE /\ workers' = [ workers EXCEPT ![caller].state = "emitted" ]
         /\ events' = Append(events, RunEmits(caller, result))
         /\ process' \in IF worker # caller THEN Destructor ELSE {"running"}
         /\ UNCHANGED <<assistant, initThread, is_processing, input_enabled, input_text,
                        worker, rules_list>>

(***************************************************************************)
(* DnDAssistant.send_message, in the steps of the agent it drives.         *)
(***************************************************************************)
\* lines 187-189: the call begins and records the query
SendMessageBegin(message, caller) ==
    /\ Alive
    /\ pc = "idle"
    /\ referenced_rules' = SendMessageLog(referenced_rules, message)
    /\ pc' = "stream"
    /\ turn' = [ message |-> message, caller |-> caller, before |-> referenced_rules ]
    /\ lastTool' = NoTool
    /\ UNCHANGED <<pdf, rules_vector_store, lastSend>>

\* the agent calls the search_rules tool (lines 110-135)
AgentCallsSearchRules ==
    /\ Alive
    /\ pc = "stream"
    /\ calls < MaxCalls
    /\ \E query \in Queries, outcome \in SearchOutcomes(rules_vector_store) :
          LET out == search_rules(referenced_rules, query, outcome.searchFails, outcome.docs,
                                  outcome.laterFails, outcome.e)
          IN  /\ referenced_rules' = out.rules
              /\ lastTool' = [ called |-> TRUE, query |-> query,
                               searched |-> ~outcome.searchFails,
                               failed |-> outcome.searchFails \/ outcome.laterFails,
                               found |-> Len(outcome.docs),
                               before |-> referenced_rules, result |-> out.result ]
    /\ calls' = calls + 1
    /\ UNCHANGED <<pdf, rules_vector_store, pc, turn, lastSend>>
    /\ UNCHANGED windowVars

\* agent.stream raises (lines 192-197), and the handler of lines 213-214 returns
AgentStreamRaises ==
    /\ process = "running"
    /\ pc = "stream"
    /\ \E e \in ErrTexts :
          LET result == SendMessageExcept(e)
          IN  /\ lastSend' = [ called |-> TRUE, message |-> turn.message, failed |-> TRUE,
                               before |-> turn.before, scanned |-> FALSE,
                               scanFrom |-> referenced_rules,
                               response |-> <<>>, result |-> result ]
              /\ ReturnTo(turn.caller, result)
    /\ pc' = "idle"
    /\ turn' = NoTurn
    /\ lastTool' = NoTool
    /\ UNCHANGED <<pdf, rules_vector_store, referenced_rules, calls>>

\* agent.stream returns: lines 199-211, or 213-214 when the scan raises
StreamReturns(results) ==
    /\ process = "running"
    /\ pc = "stream"
    /\ \E stream \in results :
          LET content == ResponseContent(stream)
              result == IF content.isStr THEN Returned(content.text)
                        ELSE SendMessageExcept(AttributeErrorText)
          IN  /\ referenced_rules' =
                     IF content.isStr
                     THEN _extract_rules_from_response(referenced_rules, content.text)
                     ELSE referenced_rules
              /\ lastSend' = [ called |-> TRUE, message |-> turn.message,
                               failed |-> ~content.isStr,
                               before |-> turn.before, scanned |-> content.isStr,
                               scanFrom |-> referenced_rules,
                               response |-> content.text, result |-> result ]
              /\ ReturnTo(turn.caller, result)
    /\ pc' = "idle"
    /\ turn' = NoTurn
    /\ lastTool' = NoTool
    /\ UNCHANGED <<pdf, rules_vector_store, calls>>

AgentStreamReturns == StreamReturns(StreamResults)

\* a caller other than the chat window calls send_message
CallSendMessage ==
    /\ calls < MaxCalls
    /\ \E message \in Messages : SendMessageBegin(message, 0)
    /\ calls' = calls + 1
    /\ UNCHANGED windowVars

(***************************************************************************)
(* The DnDAssistant on its own: Init is the state after DnDAssistant().    *)
(***************************************************************************)
WindowAbsent ==
    /\ assistant = "None"
    /\ initThread = "absent"
    /\ is_processing = FALSE
    /\ input_enabled = FALSE
    /\ input_text = <<>>
    /\ workers = <<>>
    /\ worker = 0
    /\ events = <<>>
    /\ rules_list = <<>>
    /\ process = "running"

Init ==
    /\ pdf \in PdfCases
    /\ rules_vector_store = _setup_assistant(pdf)
    /\ referenced_rules = <<>>
    /\ pc = "idle"
    /\ turn = NoTurn
    /\ calls = 0
    /\ lastTool = NoTool
    /\ lastSend = NoSend
    /\ WindowAbsent

Next ==
    \/ CallSendMessage
    \/ AgentCallsSearchRules
    \/ AgentStreamRaises
    \/ AgentStreamReturns

Spec == Init /\ [][Next]_vars

(***************************************************************************)
(* Properties of the referenced-rules log.                                 *)
(***************************************************************************)
IsPrefix(a, b) == Len(a) <= Len(b) /\ SubSeq(b, 1, Len(a)) = a

\* the entries of rules after the first n
EntriesAfter(rules, n) == { rules[i] : i \in (n + 1)..Len(rules) }

\* C1: after any sequence of send_message calls, search_rules calls and response
\* scans, the referenced-rules log never contains two equal strings.
C1_NoDuplicates ==
    \A i, j \in DOMAIN referenced_rules :
        i # j => referenced_rules[i] # referenced_rules[j]

\* a send_message call in progress whose "Query: " entry was already in the log
C1_Witness ==
    /\ pc = "stream"
    /\ (QueryPrefix \o turn.message) \in Range(turn.before)
    /\ lastTool.called

\* C2: no operation removes or reorders an entry of the log: the log before a step
\* is a prefix of the log after it.
C2_AppendOnly == [][IsPrefix(referenced_rules, referenced_rules')]_vars

\* a call returned after the query, a search and the scan each added to the log
C2_Witness ==
    /\ pc = "idle"
    /\ lastSend.scanned
    /\ Len(lastSend.scanFrom) < Len(referenced_rules)
    /\ Len(lastSend.before) >= 2
    /\ \E i \in DOMAIN lastSend.scanFrom : StartsWith(lastSend.scanFrom[i], FoundPrefix)

\* C3: send_message never raises to its caller; when the agent call or anything
\* else inside it fails, it returns a string that begins with "Error: ".
C3_SendMessageNeverRaises ==
    lastSend.called =>
        /\ ~lastSend.result.raised
        /\ lastSend.failed => StartsWith(lastSend.result.value, ErrorPrefix)

\* a call whose agent failed has returned
C3_Witness ==
    /\ lastSend.called
    /\ lastSend.failed
    /\ ~lastSend.scanned
    /\ lastSend.result.value = ErrorPrefix

\* C4: search_rules never raises to its caller; when the index search or a later
\* step fails, it returns a string that begins with "Error searching rules: ".
C4_SearchRulesNeverRaises ==
    lastTool.called =>
        /\ ~lastTool.result.raised
        /\ lastTool.failed => StartsWith(lastTool.result.value, SearchErrorPrefix)

\* a search_rules call failed in a step after the index search returned documents
C4_Witness ==
    /\ lastTool.called
    /\ lastTool.failed
    /\ lastTool.searched
    /\ lastTool.found > 0

\* C5: every search_rules(query) call whose index search does not fail leaves
\* "Search: " + query in the log, whatever the number of results.
C5_SearchAlwaysLogged ==
    (lastTool.called /\ lastTool.searched) =>
        (SearchPrefix \o lastTool.query) \in Range(referenced_rules)

\* C6: when the rulebook PDF does not exist, the index built at construction holds
\* at least one entry, the placeholder document.
C6_MissingPdfIndexNotEmpty ==
    ~pdf.exists =>
        /\ Len(rules_vector_store) >= 1
        /\ PlaceholderDoc \in Range(rules_vector_store)

\* the index built without the PDF was searched and returned its document
C6_Witness ==
    /\ ~pdf.exists
    /\ lastTool.called
    /\ lastTool.found = 1
    /\ StartsWith(lastTool.result.value, SourcePagePrefix \o <<"1","2","3">>)

\* C7: when the rulebook PDF exists but cannot be read (the loader fails or yields
\* no pages), the index built at construction holds the placeholder document.
C7_UnreadablePdfPlaceholder ==
    (pdf.exists /\ (~pdf.loads \/ pdf.pages = <<>>)) =>
        PlaceholderDoc \in Range(rules_vector_store)

\* the "Query: " entry of message is in the log, before every "Search:", "Found:"
\* or "Possible:" entry that is after the first n entries
QueryRecordedFirst(message, n) ==
    \E i \in DOMAIN referenced_rules :
        /\ referenced_rules[i] = QueryPrefix \o message
        /\ \A j \in (n + 1)..Len(referenced_rules) :
              (\/ StartsWith(referenced_rules[j], SearchPrefix)
               \/ StartsWith(referenced_rules[j], FoundPrefix)
               \/ StartsWith(referenced_rules[j], PossiblePrefix)) => i < j

\* C8: send_message(text) records "Query: " + text before the agent is driven: the
\* entry is present while the agent runs and when the call returns, also when an
\* "Error: " string is returned, and every "Search:", "Found:" or "Possible:"
\* entry first added during the turn comes after it.
C8_QueryRecordedFirst ==
    /\ pc = "stream" => QueryRecordedFirst(turn.message, Len(turn.before))
    /\ (pc = "idle" /\ lastSend.called) =>
           QueryRecordedFirst(lastSend.message, Len(lastSend.before))

\* a call that added a "Search: " entry returned an "Error: " string
C8_Witness ==
    /\ pc = "idle"
    /\ lastSend.called
    /\ lastSend.failed
    /\ StartsWith(lastSend.result.value, ErrorPrefix)
    /\ \E j \in (Len(lastSend.before) + 1)..Len(referenced_rules) :
          StartsWith(referenced_rules[j], SearchPrefix)

(***************************************************************************)
(* The response scan on generated response texts: a send_message call is   *)
(* in progress and agent.stream returns one of the texts.                  *)
(***************************************************************************)
ScanWords ==
    { <<"E","l","f">>, <<"O","r","c">>, <<"A","x">>, <<"o","r","c">>,
      <<"O","r","c","!">>, <<"E","l","f",".">>, <<"E","1","f">> }
ScanSeparators == { <<" ">>, <<"\n"," ">> }
ScanMargins == { <<>>, <<" ">> }

ScanResponses ==
    { <<>>, FireballResponse }
    \cup { margin \o StrJoin(sep, ws) \o margin :
             margin \in ScanMargins, sep \in ScanSeparators,
             ws \in UNION { [1..n -> ScanWords] : n \in 1..MaxScanWords } }

ScanStreamResults ==
    { [ events |-> TRUE, messages |-> TRUE, hasContent |-> TRUE, content |-> StrContent(t) ] :
        t \in ScanResponses }

ScanMessage == <<"h","i">>
ScanFirstLog == SendMessageLog(<<>>, ScanMessage)
ScanSecondLog == _extract_rules_from_response(ScanFirstLog, ElfOrcResponse)

\* the first send_message("hi") is in progress; or it returned ElfOrcResponse and
\* the second send_message("hi") is in progress
ScanInit ==
    /\ pdf = [ exists |-> FALSE, loads |-> FALSE, pages |-> <<>> ]
    /\ rules_vector_store = _setup_assistant(pdf)
    /\ pc = "stream"
    /\ lastTool = NoTool
    /\ WindowAbsent
    /\ \/ /\ referenced_rules = ScanFirstLog
          /\ turn = [ message |-> ScanMessage, caller |-> 0, before |-> <<>> ]
          /\ calls = 1
          /\ lastSend = NoSend
       \/ /\ referenced_rules = SendMessageLog(ScanSecondLog, ScanMessage)
          /\ turn = [ message |-> ScanMessage, caller |-> 0, before |-> ScanSecondLog ]
          /\ calls = 2
          /\ lastSend = [ called |-> TRUE, message |-> ScanMessage, failed |-> FALSE,
                          before |-> <<>>, scanned |-> TRUE, scanFrom |-> ScanFirstLog,
                          response |-> ElfOrcResponse, result |-> Returned(ElfOrcResponse) ]

ScanNext == StreamReturns(ScanStreamResults)

SpecScan == ScanInit /\ [][ScanNext]_vars

\* the whitespace-delimited words of a text, by their places in it: a word starts at
\* a character that is not whitespace and follows whitespace or nothing, and ends
\* before the next whitespace
WordStarts(r) == { i \in DOMAIN r : r[i] \notin Whitespace /\ (i = 1 \/ r[i - 1] \in Whitespace) }
WordEnd(r, i) ==
    CHOOSE j \in i..Len(r) :
        /\ \A k \in i..j : r[k] \notin Whitespace
        /\ j = Len(r) \/ r[j + 1] \in Whitespace
WordAt(r, i) == SubSeq(r, i, WordEnd(r, i))
HasPrecedingWord(r, i) == \E p \in WordStarts(r) : p < i
PrecedingWordStart(r, i) ==
    CHOOSE p \in WordStarts(r) : p < i /\ \A q \in WordStarts(r) : q < i => q <= p

\* the words the claim names: purely alphabetic, longer than 2 characters, starting
\* with an uppercase letter, not the first word, the preceding word not ending in . ! ?
NamedWords(r) ==
    { WordAt(r, i) : i \in
        { s \in WordStarts(r) :
            /\ \A k \in s..WordEnd(r, s) : r[k] \in UpperChars \cup LowerChars
            /\ WordEnd(r, s) - s + 1 > 2
            /\ r[s] \in UpperChars
            /\ HasPrecedingWord(r, s)
            /\ r[WordEnd(r, PrecedingWordStart(r, s))] \notin {".", "!", "?"} } }

PossibleFireball == PossiblePrefix \o <<"F","i","r","e","b","a","l","l">>
PossibleThe == PossiblePrefix \o <<"T","h","e">>

\* C10: when send_message has returned a response text, the scan has added
\* "Possible: " + word, once, for exactly the words the claim names that were not
\* in the log yet, and nothing else; "The Fireball spell deals damage." adds
\* "Possible: Fireball" and not "Possible: The".
C10_ScanAddsNamedWords ==
    (pc = "idle" /\ lastSend.scanned) =>
        /\ IsPrefix(lastSend.scanFrom, referenced_rules)
        /\ EntriesAfter(referenced_rules, Len(lastSend.scanFrom)) =
               { PossiblePrefix \o w : w \in NamedWords(lastSend.response) }
                   \ Range(lastSend.scanFrom)
        /\ \A i, j \in DOMAIN referenced_rules : i # j => referenced_rules[i] # referenced_rules[j]
        /\ lastSend.response = FireballResponse =>
               /\ PossibleFireball \in Range(referenced_rules)
               /\ PossibleThe \notin EntriesAfter(referenced_rules, Len(lastSend.scanFrom))

\* the scan of "The Fireball spell deals damage." has added "Possible: Fireball"
C10_Witness ==
    /\ pc = "idle"
    /\ lastSend.scanned
    /\ lastSend.response = FireballResponse
    /\ referenced_rules = Append(lastSend.scanFrom, PossibleFireball)

(***************************************************************************)
(* DnDChatWindow (dnd_chat_ui.py) and its ChatWorker threads.              *)
(***************************************************************************)
\* texts the user types into message_input
Texts == { <<" ">>, <<" ","h","i"," ">> }

\* the book emoji and the space that update_rules_list puts before a rule
ItemPrefix == <<"[book]", " ">>

NewWorker(a, message) == [ assistant |-> a, message |-> message, state |-> "started", handled |-> 0 ]

\* workers whose response or error the window has not handled yet
InFlight == { w \in DOMAIN workers : workers[w].handled = 0 }

\* send_message that leaves the window ready for input (lines 335-336 missing)
LeaveInputOpen == [ is_processing |-> FALSE, input_enabled |-> TRUE ]

\* lines 335-336: the processing flag is set and the input controls are disabled
StartProcessing == [ is_processing |-> TRUE, input_enabled |-> FALSE ]

\* update_rules_list without the rules_list.clear() of line 314
UpdateWithoutClear(a, rules, shown) ==
    IF a # "None"
    THEN shown \o [ i \in DOMAIN get_referenced_rules(rules) |-> ItemPrefix \o get_referenced_rules(rules)[i] ]
    ELSE shown

\* lines 311-318
update_rules_list(a, rules, shown) ==
    IF a # "None"
    THEN [ i \in DOMAIN get_referenced_rules(rules) |-> ItemPrefix \o get_referenced_rules(rules)[i] ]
    ELSE shown

\* the rulebook PDF where the window runs: missing, unreadable, or with pages of text
WindowPdfCases == { c \in PdfCases : ~c.exists \/ ~c.loads \/ split_documents(c.pages) # <<>> }

\* init_assistant without line 228: the controls keep the enabled state Qt gives them
InputLeftEnabled == TRUE

\* line 228: init_assistant disables the input controls before it starts the thread
InputAtInit == FALSE

\* DnDChatWindow.__init__ has returned: the controls are disabled and the thread
\* that constructs the assistant is running
InitUI ==
    /\ pdf \in WindowPdfCases
    /\ rules_vector_store = <<>>
    /\ referenced_rules = <<>>
    /\ pc = "idle"
    /\ turn = NoTurn
    /\ calls = 0
    /\ lastTool = NoTool
    /\ lastSend = NoSend
    /\ assistant = "None"
    /\ initThread = "running"
    /\ is_processing = FALSE
    /\ input_enabled = InputAtInit
    /\ input_text = <<>>
    /\ workers = <<>>
    /\ worker = 0
    /\ events = <<>>
    /\ rules_list = <<>>
    /\ process = "running"

\* init_assistant_thread (lines 231-241): DnDAssistant() returns and on_assistant_ready
\* is queued, or it raises and on_assistant_error is queued
InitAssistantThread ==
    /\ Alive
    /\ initThread = "running"
    /\ \/ /\ assistant' = "ready"
          /\ rules_vector_store' = _setup_assistant(pdf)
          /\ referenced_rules' = <<>>
          /\ initThread' = "done"
          /\ events' = Append(events, AssistantReady)
       \/ /\ \E e \in ErrTexts : events' = Append(events, AssistantError(e))
          /\ initThread' = "failed"
          /\ UNCHANGED <<assistant, rules_vector_store, referenced_rules>>
    /\ UNCHANGED <<pdf, pc, turn, calls, lastTool, lastSend, is_processing, input_enabled,
                   input_text, workers, worker, rules_list>>

\* lines 252-255
on_assistant_ready ==
    /\ Alive
    /\ events # <<>>
    /\ Head(events).kind = "assistant_ready"
    /\ events' = Tail(events)
    /\ input_enabled' = TRUE
    /\ UNCHANGED <<assistant, initThread, is_processing, input_text, workers, worker,
                   rules_list>>
    /\ UNCHANGED assistantVars

\* lines 257-267
on_assistant_error ==
    /\ Alive
    /\ events # <<>>
    /\ Head(events).kind = "assistant_error"
    /\ events' = Tail(events)
    /\ input_enabled' = FALSE
    /\ UNCHANGED <<assistant, initThread, is_processing, input_text, workers, worker,
                   rules_list>>
    /\ UNCHANGED assistantVars

\* the user edits message_input, which takes input only while it is enabled
UserTypes ==
    /\ Alive
    /\ input_enabled
    /\ \E t \in Texts : input_text' = t
    /\ UNCHANGED <<assistant, initThread, is_processing, input_enabled, workers, worker,
                   events, rules_list>>
    /\ UNCHANGED assistantVars

\* the Enter key or the Send button: a disabled control emits no signal; an enabled
\* one calls DnDChatWindow.send_message (lines 325-347)
UserSends ==
    LET message == StrStrip(input_text, Whitespace)
    IN  IF ~input_enabled
        THEN UNCHANGED vars
        ELSE IF message = <<>> \/ is_processing
        THEN UNCHANGED vars
        ELSE /\ process = "running"
             /\ process' \in IF Unfinished(worker) THEN Destructor ELSE {"running"}
             /\ calls < MaxCalls
             /\ calls' = calls + 1
             /\ input_text' = <<>>
             /\ is_processing' = StartProcessing.is_processing
             /\ input_enabled' = StartProcessing.input_enabled
             /\ workers' = Append(workers, NewWorker(assistant, message))
             /\ worker' = Len(workers) + 1
             /\ UNCHANGED <<assistant, initThread, events, rules_list>>
             /\ UNCHANGED <<pdf, rules_vector_store, referenced_rules, pc, turn, lastTool, lastSend>>

\* ChatWorker.run begins (lines 25-27): it calls send_message of the assistant it was
\* given, which raises AttributeError at once when that is None
WorkerRuns ==
    \E w \in DOMAIN workers :
        /\ Alive
        /\ workers[w].state = "started"
        /\ IF workers[w].assistant = "None"
           THEN /\ workers' = [ workers EXCEPT ![w].state = "emitted" ]
                /\ events' = Append(events, RunEmits(w, Raised(AttributeErrorText)))
                /\ UNCHANGED assistantVars
           ELSE /\ SendMessageBegin(workers[w].message, w)
                /\ calls' = calls
                /\ workers' = [ workers EXCEPT ![w].state = "running" ]
                /\ events' = events
        /\ UNCHANGED <<assistant, initThread, is_processing, input_enabled, input_text,
                       worker, rules_list>>

\* run has returned: the thread ends and its finished signal is queued
WorkerFinishes ==
    \E w \in DOMAIN workers :
        /\ Alive
        /\ workers[w].state = "emitted"
        /\ workers' = [ workers EXCEPT ![w].state = "finished" ]
        /\ events' = Append(events, Finished(w))
        /\ UNCHANGED <<assistant, initThread, is_processing, input_enabled, input_text,
                       worker, rules_list>>
        /\ UNCHANGED assistantVars

\* on_response_received (lines 354-364) or on_response_error (lines 366-373), for the
\* signal a worker emitted
on_response ==
    /\ Alive
    /\ events # <<>>
    /\ Head(events).kind \in {"response_ready", "error_occurred"}
    /\ events' = Tail(events)
    /\ rules_list' = IF Head(events).kind = "response_ready"
                     THEN update_rules_list(assistant, referenced_rules, rules_list)
                     ELSE rules_list
    /\ is_processing' = FALSE
    /\ input_enabled' = TRUE
    /\ workers' = [ workers EXCEPT ![Head(events).w].handled = @ + 1 ]
    /\ UNCHANGED <<assistant, initThread, input_text, worker>>
    /\ UNCHANGED assistantVars

\* lines 349-352
on_worker_finished ==
    /\ process = "running"
    /\ process' \in IF Unfinished(worker) THEN Destructor ELSE {"running"}
    /\ events # <<>>
    /\ Head(events).kind = "finished"
    /\ events' = Tail(events)
    /\ worker' = 0
    /\ UNCHANGED <<assistant, initThread, is_processing, input_enabled, input_text, workers,
                   rules_list>>
    /\ UNCHANGED assistantVars

\* lines 320-323: the "Clear Rules List" button
clear_rules_list ==
    /\ Alive
    /\ rules_list' = <<>>
    /\ UNCHANGED <<assistant, initThread, is_processing, input_enabled, input_text, workers,
                   worker, events>>
    /\ UNCHANGED assistantVars

NextUI ==
    \/ InitAssistantThread
    \/ on_assistant_ready
    \/ on_assistant_error
    \/ UserTypes
    \/ UserSends
    \/ WorkerRuns
    \/ AgentCallsSearchRules
    \/ AgentStreamRaises
    \/ AgentStreamReturns
    \/ WorkerFinishes
    \/ on_response
    \/ on_worker_finished
    \/ clear_rules_list

SpecUI == InitUI /\ [][NextUI]_vars

\* C9: the chat window never has two assistant.send_message calls in flight: while
\* a dispatched message has not had its response or error handled, no send request
\* of the user starts another worker.
C9_OneInFlight ==
    /\ [](Cardinality(InFlight) <= 1)
    /\ [][InFlight # {} => Len(workers') = Len(workers)]_vars

\* a second message is in flight after the first was answered
C9_Witness ==
    /\ Len(workers) = 2
    /\ workers[1].handled = 1
    /\ workers[2].state = "running"
    /\ is_processing

\* C11: the chat window dispatches no message before the assistant is constructed:
\* the input controls are disabled until initialization has succeeded and stay
\* disabled after it has failed, so no worker is started with assistant = None.
C11_NoDispatchBeforeReady ==
    /\ \A w \in DOMAIN workers : workers[w].assistant # "None"
    /\ input_enabled => (initThread = "done" /\ assistant = "ready")
    /\ initThread = "failed" => (~input_enabled /\ workers = <<>>)
    /\ assistant = "None" => workers = <<>>

\* a worker has been started, with the constructed assistant
C11_Witness ==
    /\ Len(workers) >= 1
    /\ workers[1].state = "started"
    /\ workers[1].assistant = "ready"
    /\ initThread = "done"

\* C12: on_worker_finished clears only the reference to the worker that has
\* finished: self.worker is never set to None while it refers to a worker that
\* has not finished.
C12_ClearsOnlyFinishedWorker ==
    [][(worker # 0 /\ worker' = 0) => workers[worker].state = "finished"]_vars

\* the steps that the threads of the program take by themselves: the thread that
\* constructs the assistant, the worker threads with the send_message calls they
\* make (a call returns when pc goes from "stream" to "idle"), and the event loop of
\* the window delivering the calls queued for it
ProgramStep ==
    \/ InitAssistantThread
    \/ WorkerRuns
    \/ (pc = "stream" /\ pc' = "idle" /\ (AgentStreamRaises \/ AgentStreamReturns))
    \/ WorkerFinishes
    \/ on_assistant_ready
    \/ on_assistant_error
    \/ on_response
    \/ on_worker_finished

\* the scheduling of the window: while a thread of the program or the event loop
\* has a step to take, one of them is taken; the user and the agent's choice to call
\* search_rules once more are under no obligation
SpecUIFair == SpecUI /\ WF_vars(ProgramStep)

\* the send_message call of worker w has returned and run has emitted its signal,
\* which the window has not handled yet
AwaitsDelivery(w) ==
    /\ w \in DOMAIN workers
    /\ workers[w].state \in {"emitted", "finished"}
    /\ workers[w].handled = 0

\* the signal of some worker awaits delivery
Undelivered == \E w \in DOMAIN workers : AwaitsDelivery(w)

\* C13: every dispatched message whose send_message call returns is eventually
\* answered: the response_ready or error_occurred signal emitted for it is delivered
\* to the window, which then leaves the processing state.
C13_EveryMessageAnswered == Undelivered ~> (~Undelivered /\ ~is_processing /\ input_enabled)

\* the window handles the response_ready or error_occurred signal of a worker in this step
HandlesResponse == \E w \in DOMAIN workers : workers'[w].handled > workers[w].handled

\* C14: immediately after each response the window handles, the rules panel shows
\* the whole referenced-rules log of the assistant, one item per entry in log order;
\* the only other change of the panel is "Clear Rules List", which empties the panel
\* and leaves the log as it is, so that the next response shows the cleared entries again.
C14_PanelShowsLog ==
    [][/\ HandlesResponse =>
            /\ Len(rules_list') = Len(referenced_rules')
            /\ \A i \in DOMAIN rules_list' : rules_list'[i] = ItemPrefix \o referenced_rules'[i]
            /\ \A i \in DOMAIN referenced_rules : rules_list'[i] = ItemPrefix \o referenced_rules[i]
       /\ (rules_list' # rules_list /\ ~HandlesResponse) =>
            /\ rules_list' = <<>>
            /\ referenced_rules' = referenced_rules]_vars

\* the second response has been handled: the panel shows the whole log, the
\* entries of the first response included
C14_Witness ==
    /\ Len(workers) = 2
    /\ workers[2].handled = 1
    /\ workers[2].state = "finished"
    /\ events = <<>>
    /\ Len(referenced_rules) >= 2
    /\ Len(rules_list) = Len(referenced_rules)
    /\ rules_list[1] = ItemPrefix \o referenced_rules[1]

====
